---- MODULE Spec2Model ----
(***************************************************************************)
(* A model of format-call-graph-dot-export: the signature simplifier, the  *)
(* line-by-line graph parser, the coverage normaliser with its colour      *)
(* mapping, the CallGraph model and the DOT exporter.                       *)
(*                                                                         *)
(* Text is modelled as what it is: a Python str is a sequence of           *)
(* one-character strings, a document is a sequence of lines.  A Python     *)
(* call that may raise returns a record [exc, val].  Floating-point        *)
(* scores are modelled as exact fractions <<num, den>> in lowest terms.    *)
(***************************************************************************)
EXTENDS Integers, Sequences, FiniteSets, TLC

VARIABLES
    pc,             \* position of the modelled run
    sig,            \* simplifier: the signature passed in
    simplified,     \* simplifier: what simplify_method_signature returned
    label_simple,   \* simplifier: what simplify_method_label returned
    coverage,       \* normaliser: the coverage dict passed to get_color_map
    color_map,      \* normaliser: the dict get_color_map returned
    rest,           \* parser: the lines of input_str not yet iterated
    line,           \* parser: the loop variable, the line last processed
    nodes,          \* parser / CallGraph.nodes
    edges,          \* parser / CallGraph.edges
    node_coverage,  \* CallGraph.node_coverage / node_cov
    edge_coverage,  \* CallGraph.edge_coverage / edge_cov
    graph_ranking,  \* CallGraph.graph_ranking / scores_map
    order,          \* the order in which the set `nodes` is iterated
    doc,            \* what CallGraph.export_to_dot returned
    clean           \* what convert_to_clean_graphviz returned

vars == <<pc, sig, simplified, label_simple, coverage, color_map, rest, line,
          nodes, edges, node_coverage, edge_coverage, graph_ranking, order,
          doc, clean>>

(***************************************************************************)
(* Bounds of the model.                                                    *)
(***************************************************************************)
MaxSigLen == 4
MaxLines == 2
MaxScore == 4

(***************************************************************************)
(* Python values.                                                          *)
(***************************************************************************)
None == <<"None">>
Ok(v) == [exc |-> "none", val |-> v]
Raise(e) == [exc |-> e, val |-> <<>>]
Idle == <<"idle">>

Min(S) == CHOOSE x \in S : \A y \in S : x <= y
Max(S) == CHOOSE x \in S : \A y \in S : x >= y
Range(s) == {s[i] : i \in 1..Len(s)}

(***************************************************************************)
(* Python str methods, on sequences of characters.                         *)
(***************************************************************************)
Whitespace == {" ", "\t"}

\* sub in s
Contains(s, sub) ==
    \E i \in 1..(Len(s) - Len(sub) + 1) : SubSeq(s, i, i + Len(sub) - 1) = sub

\* s.find(sub), 1-based; only used where sub is in s
Find(s, sub) ==
    Min({i \in 1..(Len(s) - Len(sub) + 1) : SubSeq(s, i, i + Len(sub) - 1) = sub})

\* s.strip(chars): every leading and every trailing character of the set goes
StripChars(s, chars) ==
    LET keep == {i \in 1..Len(s) : s[i] \notin chars}
    IN  IF keep = {} THEN <<>> ELSE SubSeq(s, Min(keep), Max(keep))

\* s.rstrip(chars)
RStripChars(s, chars) ==
    LET keep == {i \in 1..Len(s) : s[i] \notin chars}
    IN  IF keep = {} THEN <<>> ELSE SubSeq(s, 1, Max(keep))

\* s.strip()
Strip(s) == StripChars(s, Whitespace)

\* s.split(sep, 1)
SplitOnce(s, sep) ==
    IF ~Contains(s, sep) THEN <<s>>
    ELSE LET i == Find(s, sep)
         IN  <<SubSeq(s, 1, i - 1), SubSeq(s, i + Len(sep), Len(s))>>

\* s.split(sep)
RECURSIVE Split(_, _)
Split(s, sep) ==
    IF ~Contains(s, sep) THEN <<s>>
    ELSE LET i == Find(s, sep)
         IN  <<SubSeq(s, 1, i - 1)>> \o Split(SubSeq(s, i + Len(sep), Len(s)), sep)

\* s.split(): the tokens between runs of whitespace, none for a blank string
RECURSIVE SplitWS(_)
SplitWS(s) ==
    LET t == Strip(s)
        ws == {i \in 1..Len(t) : t[i] \in Whitespace}
    IN  IF t = <<>> THEN <<>>
        ELSE IF ws = {} THEN <<t>>
        ELSE <<SubSeq(t, 1, Min(ws) - 1)>> \o SplitWS(SubSeq(t, Min(ws), Len(t)))

(***************************************************************************)
(* The signature simplifier.                                               *)
(***************************************************************************)
\* CallGraph.simplify_method_signature
simplify_method_signature(full_method_signature) ==
    LET inner == StripChars(full_method_signature, {"<", ">"})
    IN  IF ~Contains(inner, <<":">>) THEN Ok(inner)
        ELSE LET parts == SplitOnce(inner, <<":">>)
                 cls == parts[1]
                 remainder == parts[2]
                 cls_parts == Split(cls, <<".">>)
                 cls_short == cls_parts[Len(cls_parts)]
                 method == Split(Strip(remainder), <<"(">>)[1]
                 tokens == SplitWS(method)
             IN  IF tokens = <<>> THEN Raise("IndexError")
                 ELSE Ok(cls_short \o <<".">> \o tokens[Len(tokens)])

\* main.simplify_method_label
simplify_method_label(raw_label) ==
    LET inner == StripChars(raw_label, {"<", ">"})
    IN  IF ~Contains(inner, <<":">>) THEN Ok(inner)
        ELSE LET parts == SplitOnce(inner, <<":">>)
                 cls == parts[1]
                 remainder == parts[2]
                 cls_parts == Split(cls, <<".">>)
                 cls_short == cls_parts[Len(cls_parts)]
                 method == Split(Strip(remainder), <<"(">>)[1]
                 tokens == SplitWS(method)
             IN  IF tokens = <<>> THEN Raise("IndexError")
                 ELSE Ok(cls_short \o <<".">> \o tokens[Len(tokens)])

(***************************************************************************)
(* Signatures used as inputs.                                              *)
(***************************************************************************)
SigBm == <<"<","a",".","B",":"," ","v"," ","m","(",")",">">>
SigBinit == <<"<","a",".","B",":"," ","v"," ","<","i","n","i","t",">","(",")",">">>
SigCn == <<"<","a",".","C",":"," ","v"," ","n","(",")",">">>
SigFoo == <<"<","f","o","o",">">>

SigAlphabet == {"<", ">", ":", ".", "(", " ", "a", "b"}

RECURSIVE SeqsUpTo(_, _)
SeqsUpTo(S, n) ==
    IF n = 0 THEN {<<>>}
    ELSE LET shorter == SeqsUpTo(S, n - 1)
         IN  shorter \cup {Append(s, c) : s \in {t \in shorter : Len(t) = n - 1}, c \in S}

SigInputs == SeqsUpTo(SigAlphabet, MaxSigLen) \cup {SigBm, SigBinit, SigCn, SigFoo}

(***************************************************************************)
(* The simplifier as a run: one call of each of the two copies.            *)
(***************************************************************************)
PipelineIdle ==
    /\ rest = <<>> /\ line = Idle /\ nodes = {} /\ edges = <<>>
    /\ node_coverage = <<>> /\ edge_coverage = <<>> /\ graph_ranking = <<>>
    /\ order = <<>> /\ doc = Idle /\ clean = Idle

ColorIdle == coverage = <<>> /\ color_map = Idle

SimplifyIdle == sig = <<>> /\ simplified = Idle /\ label_simple = Idle

InitSimplify ==
    /\ pc = "simplify"
    /\ sig \in SigInputs
    /\ simplified = Idle /\ label_simple = Idle
    /\ ColorIdle /\ PipelineIdle

Simplify ==
    /\ pc = "simplify"
    /\ simplified' = simplify_method_signature(sig)
    /\ label_simple' = simplify_method_label(sig)
    /\ pc' = "simplified"
    /\ UNCHANGED <<sig, coverage, color_map, rest, line, nodes, edges,
                   node_coverage, edge_coverage, graph_ranking, order, doc, clean>>

NextSimplify == Simplify

SpecSimplify == InitSimplify /\ [][NextSimplify]_vars

(***************************************************************************)
(* The coverage normaliser and its colours.                                *)
(*                                                                         *)
(* A coverage dict is a function from some of the keys to integer scores.  *)
(* A normalised score is the exact fraction <<num, den>> in lowest terms;  *)
(* the code computes it in binary floating point, and int() of the float   *)
(* products below equals the exact truncation for every denominator up to  *)
(* 4, which is all that scores within MaxScore + 1 can produce.            *)
(***************************************************************************)
RECURSIVE GCD(_, _)
GCD(a, b) == IF b = 0 THEN a ELSE GCD(b, a % b)

Frac(n, d) == LET g == GCD(n, d) IN <<n \div g, d \div g>>

One == <<1, 1>>
Zero == <<0, 1>>

EmptyDict == [k \in {} |-> 0]

\* CallGraph._filter_covered, mutated: an entry with score 0 is kept
filter_covered_keeps_zero(cov) ==
    [k \in {x \in DOMAIN cov : cov[x] >= 0} |-> cov[k]]

\* CallGraph._filter_covered
filter_covered(cov) ==
    [k \in {x \in DOMAIN cov : cov[x] > 0} |-> cov[k]]

\* CallGraph._normalize_coverage
normalize_coverage(cov) ==
    IF DOMAIN cov = {} THEN EmptyDict
    ELSE LET min_v == Min({cov[k] : k \in DOMAIN cov})
             max_v == Max({cov[k] : k \in DOMAIN cov})
         IN  IF max_v = min_v THEN [k \in DOMAIN cov |-> One]
             ELSE [k \in DOMAIN cov |-> Frac(cov[k] - min_v, max_v - min_v)]

\* the constants of CallGraph._get_green_intensity
BaselinePct == 35
GreenMax == 255
TintMax == 30

HexDigits == <<"0","1","2","3","4","5","6","7","8","9","A","B","C","D","E","F">>

\* format(v, "02X") for 0 <= v <= 255
Hex02X(v) == <<HexDigits[(v \div 16) + 1], HexDigits[(v % 16) + 1]>>

\* CallGraph._get_green_intensity; int() truncates towards zero, and every
\* product here is non-negative
get_green_intensity(score) ==
    LET clamped_score == IF score[1] < 0 THEN Zero
                         ELSE IF score[1] > score[2] THEN One
                         ELSE score
        n == clamped_score[1]
        d == clamped_score[2]
        \* 255 * (0.35 + 0.65 * n/d)
        green_value == (GreenMax * (BaselinePct * d + (100 - BaselinePct) * n)) \div (100 * d)
        \* 30 * (1 - n/d)
        red_value == (TintMax * (d - n)) \div d
        blue_value == (TintMax * (d - n)) \div d
    IN  <<"#">> \o Hex02X(red_value) \o Hex02X(green_value) \o Hex02X(blue_value)

\* CallGraph.get_color_map
get_color_map(cov) ==
    LET filtered == filter_covered(cov)
        normalized == normalize_coverage(filtered)
    IN  [k \in DOMAIN normalized |-> <<normalized[k], get_green_intensity(normalized[k])>>]

\* dicts over the keys K with values in V
Dicts(K, V) == UNION {[D -> V] : D \in SUBSET K}

CoverageKeys == {SigBm, SigBinit, SigCn}
CoverageScores == (0 - 1)..MaxScore

InitColor ==
    /\ pc = "color"
    /\ coverage \in Dicts(CoverageKeys, CoverageScores)
    /\ color_map = Idle
    /\ SimplifyIdle /\ PipelineIdle

GetColorMap ==
    /\ pc = "color"
    /\ color_map' = get_color_map(coverage)
    /\ pc' = "colored"
    /\ UNCHANGED <<sig, simplified, label_simple, coverage, rest, line, nodes, edges,
                   node_coverage, edge_coverage, graph_ranking, order, doc, clean>>

NextColor == GetColorMap

SpecColor == InitColor /\ [][NextColor]_vars

(***************************************************************************)
(* The graph parser: the loop of main.convert_to_clean_graphviz.           *)
(***************************************************************************)
Quote == <<"\"">>
Arrow == <<"-",">">>
QuoteLt == <<"\"","<">>
GtQuote == <<">","\"">>
LabelOpen == <<"[","l","a","b","e","l">>
LabelOpenEq == <<"[","l","a","b","e","l","=","\"">>
QuoteBracket == <<"\"","]">>

At(s, i, sub) == i >= 1 /\ i + Len(sub) - 1 <= Len(s) /\ SubSeq(s, i, i + Len(sub) - 1) = sub

\* pattern.match(line) for  ^"<.*>"\s*->\s*"<.*>"\[label=".*"]$ : a, b, c, d
\* are where the first >", the arrow, the second "< and the second >" match
PatternMatches(l) ==
    /\ At(l, 1, QuoteLt)
    /\ \E a \in 3..Len(l) :
         /\ At(l, a, GtQuote)
         /\ \E b \in (a + 2)..Len(l) :
              /\ At(l, b, Arrow)
              /\ \A i \in (a + 2)..(b - 1) : l[i] \in Whitespace
              /\ \E c \in (b + 2)..Len(l) :
                   /\ At(l, c, QuoteLt)
                   /\ \A i \in (b + 2)..(c - 1) : l[i] \in Whitespace
                   /\ \E d \in (c + 2)..Len(l) :
                        /\ At(l, d, GtQuote)
                        /\ At(l, d + 2, LabelOpenEq)
                        /\ Len(l) - 1 >= d + 2 + Len(LabelOpenEq)
                        /\ At(l, Len(l) - 1, QuoteBracket)

\* the body of the loop for a line that matched: the edge it appends, or the
\* IndexError of label_part.split("\"")[1]
EdgeOfLine(l) ==
    LET halves == SplitOnce(l, Arrow)
        left == halves[1]
        right0 == halves[2]
        has_label == Contains(right0, LabelOpen)
        right == IF has_label THEN SplitOnce(right0, LabelOpen)[1] ELSE right0
        label_pieces == IF has_label THEN Split(SplitOnce(right0, LabelOpen)[2], Quote)
                        ELSE <<>>
        label == IF has_label THEN label_pieces[2] ELSE None
        src_raw_full == StripChars(Strip(left), {"\""})
        dst_raw_full == RStripChars(StripChars(Strip(right), {"\""}), {";"})
    IN  IF has_label /\ Len(label_pieces) < 2 THEN Raise("IndexError")
        ELSE Ok(<<src_raw_full, dst_raw_full, label>>)

\* ParseStep, mutated: nodes.add(dst_raw_full) is forgotten
ParseStepForgetsDst(g, raw_line) ==
    LET l == Strip(raw_line)
    IN  IF ~PatternMatches(l) THEN Ok(g)
        ELSE IF ~Contains(l, Arrow) THEN Ok(g)
        ELSE LET e == EdgeOfLine(l)
             IN  IF e.exc # "none" THEN Raise(e.exc)
                 ELSE Ok([nodes |-> g.nodes \cup {e.val[1]},
                          edges |-> Append(g.edges, e.val)])

\* one iteration of  for line in input_str.splitlines()  on the graph g
ParseStep(g, raw_line) ==
    LET l == Strip(raw_line)
    IN  IF ~PatternMatches(l) THEN Ok(g)
        ELSE IF ~Contains(l, Arrow) THEN Ok(g)
        ELSE LET e == EdgeOfLine(l)
             IN  IF e.exc # "none" THEN Raise(e.exc)
                 ELSE Ok([nodes |-> g.nodes \cup {e.val[1], e.val[2]},
                          edges |-> Append(g.edges, e.val)])

\* the whole loop
RECURSIVE ParseLines(_, _)
ParseLines(g, ls) ==
    IF ls = <<>> THEN Ok(g)
    ELSE LET r == ParseStep(g, Head(ls))
         IN  IF r.exc # "none" THEN r ELSE ParseLines(r.val, Tail(ls))

\* str.splitlines() of a text whose only line break is "\n"
SplitLines(text) ==
    LET nl == {i \in 1..Len(text) : text[i] = "\n"}
        starts == {1} \cup {i + 1 : i \in nl}
        kept == {st \in starts : st <= Len(text)}
        start(k) == CHOOSE st \in kept : Cardinality({x \in kept : x < st}) = k - 1
        stop(st) == Min({j \in nl : j >= st} \cup {Len(text) + 1}) - 1
    IN  [k \in 1..Cardinality(kept) |-> SubSeq(text, start(k), stop(start(k)))]

\* "\n".join(lines)
RECURSIVE JoinLines(_)
JoinLines(ls) ==
    IF ls = <<>> THEN <<>>
    ELSE IF Len(ls) = 1 THEN ls[1]
    ELSE ls[1] \o <<"\n">> \o JoinLines(Tail(ls))

(***************************************************************************)
(* Input lines.                                                            *)
(***************************************************************************)
LabelBlock(text) == LabelOpenEq \o text \o QuoteBracket

\* "<src>"->"<dst>"[label="3"]
LineLabelled == Quote \o SigBm \o Quote \o Arrow \o Quote \o SigBinit \o Quote \o LabelBlock(<<"3">>)
\* whitespace around the arrow and an empty label text
LineSpacedEmptyLabel ==
    Quote \o SigBinit \o Quote \o <<" ">> \o Arrow \o <<" ">> \o Quote \o SigCn \o Quote \o LabelBlock(<<>>)
\* no label block
LineNoLabel == Quote \o SigBm \o Quote \o Arrow \o Quote \o SigCn \o Quote
\* a trailing semicolon
LineSemicolon == Quote \o SigCn \o Quote \o Arrow \o Quote \o SigBm \o Quote \o LabelBlock(<<"3">>) \o <<";">>
\* a recursive call of a node whose signature has no ':' and no '.'
LineFoo == Quote \o SigFoo \o Quote \o Arrow \o Quote \o SigFoo \o Quote \o LabelBlock(<<"7">>)
\* a header line of a graph description
LineHeader == <<"d","i","g","r","a","p","h"," ","G"," ","{">>

InputLines == {LineLabelled, LineSpacedEmptyLabel, LineNoLabel, LineSemicolon, LineFoo, LineHeader}

(***************************************************************************)
(* Ordering of strings: Python compares str by code point.  Ascii lists    *)
(* the characters 32..126 in order; a TLA+ string cannot hold the grave     *)
(* accent, whose place is kept by a string no character equals.            *)
(***************************************************************************)
Ascii ==
  <<" ","!","\"","#","$","%","&","'","(",")","*","+",",","-",".","/","0",
    "1","2","3","4","5","6","7","8","9",":",";","<","=",">","?","@","A","B",
    "C","D","E","F","G","H","I","J","K","L","M","N","O","P","Q","R","S","T",
    "U","V","W","X","Y","Z","[","\\","]","^","_","(grave)","a","b","c","d","e",
    "f","g","h","i","j","k","l","m","n","o","p","q","r","s","t","u","v","w",
    "x","y","z","{","|","}","~">>

CodePoint(c) == 31 + (CHOOSE i \in 1..Len(Ascii) : Ascii[i] = c)

\* a <= b for two str
StrLeq(a, b) ==
    LET n == Min({Len(a), Len(b)})
        diff == {i \in 1..n : a[i] # b[i]}
    IN  IF diff = {} THEN Len(a) <= Len(b)
        ELSE CodePoint(a[Min(diff)]) < CodePoint(b[Min(diff)])

\* sorted() of a set of str
RECURSIVE SortStrings(_)
SortStrings(S) ==
    IF S = {} THEN <<>>
    ELSE LET m == CHOOSE x \in S : \A y \in S : StrLeq(x, y)
         IN  <<m>> \o SortStrings(S \ {m})

\* every order in which a set can be iterated
Perms(S) ==
    {f \in [1..Cardinality(S) -> S] : \A i, j \in 1..Cardinality(S) : f[i] = f[j] => i = j}

RECURSIVE Flatten(_)
Flatten(ss) == IF ss = <<>> THEN <<>> ELSE Head(ss) \o Flatten(Tail(ss))

(***************************************************************************)
(* The CallGraph model and the DOT exporter.                               *)
(***************************************************************************)
\* CallGraph.get_edge_key
get_edge_key(src_method, dst_method) ==
    Quote \o src_method \o Quote \o Arrow \o Quote \o dst_method \o Quote

\* simplified.split(".", 1)[0] of a node whose simplification did not raise
ClsOf(raw) == SplitOnce(simplify_method_signature(raw).val, <<".">>)[1]

\* CallGraph.get_clusters, the set self.nodes being iterated in the order
\* iter_order: each class name with its nodes in that order
get_clusters(iter_order) ==
    IF \E i \in 1..Len(iter_order) : simplify_method_signature(iter_order[i]).exc # "none"
    THEN Raise("IndexError")
    ELSE Ok([cls \in {ClsOf(iter_order[i]) : i \in 1..Len(iter_order)} |->
               LET InCls(raw) == ClsOf(raw) = cls
               IN  SelectSeq(iter_order, InCls)])

\* sorted(raw_nodes), mutated: the list is left in iteration order
sorted_raw_nodes_unsorted(raw_nodes) == raw_nodes

\* sorted(raw_nodes); the list holds the members of a set, each once
sorted_raw_nodes(raw_nodes) == SortStrings(Range(raw_nodes))

\* all_green of export_to_dot, mutated: any() for all()
all_green_any(raw_nodes, node_color_map) ==
    \E i \in 1..Len(raw_nodes) : raw_nodes[i] \in DOMAIN node_color_map

\* all_green of export_to_dot
all_green(raw_nodes, node_color_map) ==
    \A i \in 1..Len(raw_nodes) : raw_nodes[i] \in DOMAIN node_color_map

\* all_green of convert_to_clean_graphviz
all_green_main(raw_nodes, node_cov) ==
    \A i \in 1..Len(raw_nodes) :
        (IF raw_nodes[i] \in DOMAIN node_cov THEN node_cov[raw_nodes[i]] ELSE 0) > 0

\* re.sub(r'[^A-Za-z0-9_]', '_', cls)
SafeChars ==
    {Ascii[i] : i \in 17..26} \cup {Ascii[i] : i \in 34..59} \cup {Ascii[i] : i \in 66..91}
        \cup {"_"}
safe_cls(cls) == [i \in 1..Len(cls) |-> IF cls[i] \in SafeChars THEN cls[i] ELSE "_"]

\* str(n) for n >= 0
RECURSIVE Digits(_)
Digits(n) == IF n < 10 THEN <<HexDigits[n + 1]>> ELSE Digits(n \div 10) \o <<HexDigits[(n % 10) + 1]>>

\* format(score, ".4f") of the score r / 10000
Format4f(r) ==
    Digits(r \div 10000) \o <<".">> \o
    <<HexDigits[((r \div 1000) % 10) + 1], HexDigits[((r \div 100) % 10) + 1],
      HexDigits[((r \div 10) % 10) + 1], HexDigits[(r % 10) + 1]>>

HeaderLines ==
  << <<"d","i","g","r","a","p","h"," ","O","b","j","e","c","t","G","r","a","p","h"," ","{">>,
     <<" "," "," "," ","r","a","n","k","d","i","r","=","L","R",";">>,
     <<" "," "," "," ","g","r","a","p","h"," ","[">>,
     <<" "," "," "," "," "," "," "," ","r","a","n","k","s","e","p","=","1",".","8",",">>,
     <<" "," "," "," "," "," "," "," ","n","o","d","e","s","e","p","=","0",".","1",",">>,
     <<" "," "," "," "," "," "," "," ","o","v","e","r","l","a","p","=","f","a","l","s","e",",">>,
     <<" "," "," "," "," "," "," "," ","s","p","l","i","n","e","s","=","t","r","u","e">>,
     <<" "," "," "," ","]",";">>,
     <<" "," "," "," ","n","o","d","e"," ","[","s","h","a","p","e","=","b","o","x",","," ","f","o","n","t","s","i","z","e","=","1","0","]",";">> >>

Indent4 == <<" "," "," "," ">>
Indent8 == <<" "," "," "," "," "," "," "," ">>
GreenLabel == <<"c","o","l","o","r","=","g","r","e","e","n",";"," ","f","o","n","t","c","o","l","o","r","=","g","r","e","e","n",";">>
GreenStyle == <<"c","o","l","o","r","=","g","r","e","e","n",";">>
Green == <<"g","r","e","e","n">>

\* f'    subgraph "cluster_{safe_cls}" {{'
SubgraphLine(cls) ==
    Indent4 \o <<"s","u","b","g","r","a","p","h"," ","\"","c","l","u","s","t","e","r","_">>
        \o safe_cls(cls) \o <<"\""," ","{">>

\* f'        label = "{cls}"; {"color=green; fontcolor=green;" if all_green else ""}'
LabelLine(cls, green) ==
    Indent8 \o <<"l","a","b","e","l"," ","="," ","\"">> \o cls \o <<"\"",";"," ">>
        \o (IF green THEN GreenLabel ELSE <<>>)

\* f'        style=rounded; {"color=green;" if all_green else ""}'
StyleLine(green) ==
    Indent8 \o <<"s","t","y","l","e","=","r","o","u","n","d","e","d",";"," ">>
        \o (IF green THEN GreenStyle ELSE <<>>)

\* f'color="{color}", fontcolor="{color}"' if color is not None else ""
ColorAttr(color) ==
    IF color = None THEN <<>>
    ELSE <<"c","o","l","o","r","=","\"">> \o color
         \o <<"\"",","," ","f","o","n","t","c","o","l","o","r","=","\"">> \o color \o Quote

\* f"{method_only}\\n({score:.4f})" if score is not None else method_only
LabelText(method_only, raw, ranking) ==
    IF raw \in DOMAIN ranking
    THEN method_only \o <<"\\","n","(">> \o Format4f(ranking[raw]) \o <<")">>
    ELSE method_only

\* the line of one node, or the IndexError of simplified.split(".", 1)[1]
NodeLine(raw, ranking, color) ==
    LET parts == SplitOnce(simplify_method_signature(raw).val, <<".">>)
    IN  IF Len(parts) < 2 THEN Raise("IndexError")
        ELSE Ok(Indent8 \o Quote \o raw \o <<"\""," ","[","l","a","b","e","l","=","\"">>
                \o LabelText(parts[2], raw, ranking) \o <<"\""," ">> \o ColorAttr(color)
                \o <<"]",";">>)

\* the line of one edge:  if label:  is false for None and for ""
EdgeLine(e, color) ==
    IF e[3] # None /\ e[3] # <<>>
    THEN Indent4 \o Quote \o e[1] \o Quote \o Arrow \o Quote \o e[2] \o Quote
         \o LabelOpenEq \o e[3] \o <<"\""," ">> \o ColorAttr(color) \o <<"]",";">>
    ELSE Indent4 \o Quote \o e[1] \o Quote \o Arrow \o Quote \o e[2] \o Quote
         \o <<"[">> \o ColorAttr(color) \o <<"]",";">>

\* color_map.get(key, (0.0, None))[1]
ColorOf(cmap, key) == IF key \in DOMAIN cmap THEN cmap[key][2] ELSE None

\* 'green' if the raw score of key is > 0, as convert_to_clean_graphviz colours
GreenOf(cov, key) == IF key \in DOMAIN cov /\ cov[key] > 0 THEN Green ELSE None

\* lines.append of one cluster: its three opening lines, the lines of its
\* nodes and the closing brace, or the IndexError of one of its nodes
ClusterLines(cls, green, node_lines) ==
    IF \E i \in 1..Len(node_lines) : node_lines[i].exc # "none"
    THEN Raise("IndexError")
    ELSE Ok(<<SubgraphLine(cls), LabelLine(cls, green), StyleLine(green)>>
            \o [i \in 1..Len(node_lines) |-> node_lines[i].val]
            \o <<Indent4 \o <<"}">> >>)

\* the lines after the header: the clusters, the edges, the closing brace,
\* joined by newlines; the IndexError of a cluster leaves no document
Document(blocks, edge_lines) ==
    IF \E k \in 1..Len(blocks) : blocks[k].exc # "none"
    THEN Raise("IndexError")
    ELSE Ok(JoinLines(HeaderLines
                      \o Flatten([k \in 1..Len(blocks) |-> blocks[k].val])
                      \o edge_lines \o << <<"}">> >>))

\* export_to_dot: the node lines of one cluster, over its sorted members
ExportNodeLines(members, ranking, node_color_map) ==
    [i \in 1..Len(members) |->
        NodeLine(members[i], ranking, ColorOf(node_color_map, members[i]))]

\* export_to_dot: one iteration of  for cls, raw_nodes in sorted(clusters.items())
ExportBlock(cls, raw_nodes, ranking, node_color_map) ==
    ClusterLines(cls, all_green(raw_nodes, node_color_map),
                 ExportNodeLines(sorted_raw_nodes(raw_nodes), ranking, node_color_map))

\* export_to_dot: the loop over the clusters, names being their sorted names
ExportBlocks(clusters, names, ranking, node_color_map) ==
    [k \in 1..Len(names) |-> ExportBlock(names[k], clusters[names[k]], ranking, node_color_map)]

\* export_to_dot: the loop over self.edges
ExportEdgeLines(g_edges, edge_color_map) ==
    [i \in 1..Len(g_edges) |->
        EdgeLine(g_edges[i],
                 ColorOf(edge_color_map, get_edge_key(g_edges[i][1], g_edges[i][2])))]

\* export_to_dot once the colour maps and the clusters are computed
ExportFrom(node_color_map, edge_color_map, clusters, g_edges, ranking) ==
    IF clusters.exc # "none" THEN Raise(clusters.exc)
    ELSE Document(ExportBlocks(clusters.val, SortStrings(DOMAIN clusters.val),
                               ranking, node_color_map),
                  ExportEdgeLines(g_edges, edge_color_map))

\* CallGraph.export_to_dot on (g_nodes, g_edges) with the three mappings, the
\* node set being iterated in the order iter_order
export_to_dot(g_edges, node_cov, edge_cov, ranking, iter_order) ==
    ExportFrom(get_color_map(node_cov), get_color_map(edge_cov),
               get_clusters(iter_order), g_edges, ranking)

\* simplified.split(".")[0] of a node whose simplification did not raise
ClsOfLabel(raw) == SplitOnce(simplify_method_label(raw).val, <<".">>)[1]

\* convert_to_clean_graphviz: the clusters, nodes being iterated in iter_order
main_clusters(iter_order) ==
    [cls \in {ClsOfLabel(iter_order[i]) : i \in 1..Len(iter_order)} |->
        LET InCls(raw) == ClsOfLabel(raw) = cls
        IN  SelectSeq(iter_order, InCls)]

\* convert_to_clean_graphviz: the node lines of one cluster
ConvertNodeLines(members, scores_map, node_cov) ==
    [i \in 1..Len(members) |->
        NodeLine(members[i], scores_map, GreenOf(node_cov, members[i]))]

\* convert_to_clean_graphviz: one iteration of the loop over the clusters
ConvertBlock(cls, raw_nodes, scores_map, node_cov) ==
    ClusterLines(cls, all_green_main(raw_nodes, node_cov),
                 ConvertNodeLines(SortStrings(Range(raw_nodes)), scores_map, node_cov))

\* convert_to_clean_graphviz: the loop over the clusters
ConvertBlocks(clusters, names, scores_map, node_cov) ==
    [k \in 1..Len(names) |-> ConvertBlock(names[k], clusters[names[k]], scores_map, node_cov)]

\* convert_to_clean_graphviz: the loop over edges
ConvertEdgeLines(g_edges, edge_cov) ==
    [i \in 1..Len(g_edges) |->
        EdgeLine(g_edges[i], GreenOf(edge_cov, get_edge_key(g_edges[i][1], g_edges[i][2])))]

\* convert_to_clean_graphviz once the clusters are computed
ConvertFrom(clusters, g_edges, node_cov, edge_cov, scores_map) ==
    Document(ConvertBlocks(clusters, SortStrings(DOMAIN clusters), scores_map, node_cov),
             ConvertEdgeLines(g_edges, edge_cov))

\* the part of main.convert_to_clean_graphviz after the parsing loop
convert_export(g_edges, node_cov, edge_cov, scores_map, iter_order) ==
    IF \E i \in 1..Len(iter_order) : simplify_method_label(iter_order[i]).exc # "none"
    THEN Raise("IndexError")
    ELSE ConvertFrom(main_clusters(iter_order), g_edges, node_cov, edge_cov, scores_map)

(***************************************************************************)
(* The pipeline as a run: the parsing loop line by line, the rest of       *)
(* convert_to_clean_graphviz, then export_to_dot of the CallGraph that      *)
(* holds the parsed graph and the same mappings.                           *)
(***************************************************************************)
NodeCoverages == Dicts({SigBm, SigBinit}, {0 - 1, 0, 2})
EdgeCoverages == Dicts({get_edge_key(SigBinit, SigCn)}, {2})
\* one ranking: 1.2345 for one node, none for the others
Rankings == {[n \in {SigBm} |-> 12345]}

Init ==
    /\ pc = "parse"
    /\ rest \in SeqsUpTo(InputLines, MaxLines)
    /\ line = Idle /\ nodes = {} /\ edges = <<>>
    /\ node_coverage \in NodeCoverages
    /\ edge_coverage \in EdgeCoverages
    /\ graph_ranking \in Rankings
    /\ order = <<>> /\ doc = Idle /\ clean = Idle
    /\ SimplifyIdle /\ ColorIdle

\* one iteration of the parsing loop
ParseLine ==
    /\ pc = "parse" /\ rest # <<>>
    /\ LET r == ParseStep([nodes |-> nodes, edges |-> edges], Head(rest))
       IN  IF r.exc # "none"
           THEN pc' = "raised" /\ UNCHANGED <<nodes, edges>>
           ELSE pc' = "parse" /\ nodes' = r.val.nodes /\ edges' = r.val.edges
    /\ line' = Strip(Head(rest))
    /\ rest' = Tail(rest)
    /\ UNCHANGED <<sig, simplified, label_simple, coverage, color_map, node_coverage,
                   edge_coverage, graph_ranking, order, doc, clean>>

\* the lines are exhausted and the loop ends; its variable is read no more
EndLoop ==
    /\ pc = "parse" /\ rest = <<>>
    /\ line' = Idle
    /\ pc' = "parsed"
    /\ UNCHANGED <<sig, simplified, label_simple, coverage, color_map, rest, nodes, edges,
                   node_coverage, edge_coverage, graph_ranking, order, doc, clean>>

\* after the loop: the clusters and lines of convert_to_clean_graphviz
ConvertExport ==
    /\ pc = "parsed"
    /\ \E o \in Perms(nodes) :
         /\ order' = o
         /\ clean' = convert_export(edges, node_coverage, edge_coverage, graph_ranking, o)
    /\ pc' = "converted"
    /\ UNCHANGED <<sig, simplified, label_simple, coverage, color_map, rest, line, nodes,
                   edges, node_coverage, edge_coverage, graph_ranking, doc>>

\* CallGraph(nodes, edges, node_coverage, edge_coverage, graph_ranking).export_to_dot()
ExportToDot ==
    /\ pc = "parsed"
    /\ \E o \in Perms(nodes) :
         /\ order' = o
         /\ doc' = export_to_dot(edges, node_coverage, edge_coverage, graph_ranking, o)
    /\ pc' = "exported"
    /\ UNCHANGED <<sig, simplified, label_simple, coverage, color_map, rest, line, nodes,
                   edges, node_coverage, edge_coverage, graph_ranking, clean>>

Next == ParseLine \/ EndLoop \/ ConvertExport \/ ExportToDot

Spec == Init /\ [][Next]_vars

(***************************************************************************)
(* C2                                                                      *)
(***************************************************************************)
\* the reference of the claim: exactly one leading '<' and one trailing '>' go
RefInner(s) ==
    LET a == IF s # <<>> /\ s[1] = "<" THEN Tail(s) ELSE s
    IN  IF a # <<>> /\ a[Len(a)] = ">" THEN SubSeq(a, 1, Len(a) - 1) ELSE a

RefTokens(s) == SplitWS(Split(SplitOnce(RefInner(s), <<":">>)[2], <<"(">>)[1])

\* the reference names a result: no ':' at all, or a method token to take
RefDefined(s) == ~Contains(RefInner(s), <<":">>) \/ RefTokens(s) # <<>>

RefSimplify(s) ==
    IF ~Contains(RefInner(s), <<":">>) THEN RefInner(s)
    ELSE LET cls_parts == Split(SplitOnce(RefInner(s), <<":">>)[1], <<".">>)
         IN  cls_parts[Len(cls_parts)] \o <<".">> \o RefTokens(s)[Len(RefTokens(s))]

\* C2: wherever the reference result is defined, both simplifiers return it:
\* one leading '<' and one trailing '>' removed, the inner text itself when it
\* has no ':', and otherwise "{short class}.{method token}".
C2_SimplifyIsReference ==
    (pc = "simplified" /\ RefDefined(sig)) =>
        /\ simplified = Ok(RefSimplify(sig))
        /\ label_simple = Ok(RefSimplify(sig))

(***************************************************************************)
(* C3                                                                      *)
(***************************************************************************)
Positive(cov) == {k \in DOMAIN cov : cov[k] > 0}

\* C3: the colour map's keys are exactly the keys with a raw score > 0, and
\* each normalised score is 1 when the remaining minimum and maximum agree and
\* (score - min) / (max - min) otherwise, a value in [0,1].
C3_ColorMapKeysAndScores ==
    pc = "colored" =>
        /\ DOMAIN color_map = Positive(coverage)
        /\ \A k \in DOMAIN color_map :
             LET lo == Min({coverage[x] : x \in Positive(coverage)})
                 hi == Max({coverage[x] : x \in Positive(coverage)})
                 v == color_map[k][1]
             IN  /\ v[2] > 0 /\ 0 <= v[1] /\ v[1] <= v[2]
                 /\ IF lo = hi THEN v[1] = v[2]
                    ELSE v[1] * (hi - lo) = (coverage[k] - lo) * v[2]

\* a key with score <= 0 was dropped and two kept keys got different scores
C3_Witness ==
    /\ pc = "colored"
    /\ \E k \in DOMAIN coverage : coverage[k] <= 0 /\ k \notin DOMAIN color_map
    /\ \E j, k \in DOMAIN color_map :
         /\ color_map[j][1] = Zero /\ color_map[k][1] = One

(***************************************************************************)
(* C4                                                                      *)
(***************************************************************************)
HexValue(c) == CHOOSE i \in 0..15 : HexDigits[i + 1] = c
Channel(color, i) == 16 * HexValue(color[i]) + HexValue(color[i + 1])

\* c is an integer nearest to n/d (either neighbour on a tie)
Nearest(c, n, d) == 2 * c * d - 2 * n <= d /\ 2 * n - 2 * c * d <= d

\* C4: every colour of the map is '#RRGGBB' whose green channel is
\* 255 * (0.35 + 0.65 * v) rounded to the nearest integer and whose red and
\* blue channels are 30 * (1 - v) rounded to the nearest integer.
C4_ChannelsAreRounded ==
    pc = "colored" =>
        \A k \in DOMAIN color_map :
            LET v == color_map[k][1]
                color == color_map[k][2]
            IN  /\ Len(color) = 7 /\ color[1] = "#"
                /\ \A i \in 2..7 : color[i] \in Range(HexDigits)
                /\ Nearest(Channel(color, 4),
                           GreenMax * (BaselinePct * v[2] + (100 - BaselinePct) * v[1]),
                           100 * v[2])
                /\ Nearest(Channel(color, 2), TintMax * (v[2] - v[1]), v[2])
                /\ Nearest(Channel(color, 6), TintMax * (v[2] - v[1]), v[2])

(***************************************************************************)
(* C1                                                                      *)
(***************************************************************************)
\* the line form of the claim: "<src>", an arrow with any whitespace around
\* it, "<dst>", then an optional [label="..."] block and an optional ';'
C1_EdgeForm(l) ==
    LET body == IF l # <<>> /\ l[Len(l)] = ";" THEN SubSeq(l, 1, Len(l) - 1) ELSE l
    IN  /\ At(body, 1, QuoteLt)
        /\ \E a \in 3..Len(body) :
             /\ At(body, a, GtQuote)
             /\ \E b \in (a + 2)..Len(body) :
                  /\ At(body, b, Arrow)
                  /\ \A i \in (a + 2)..(b - 1) : body[i] \in Whitespace
                  /\ \E c \in (b + 2)..Len(body) :
                       /\ At(body, c, QuoteLt)
                       /\ \A i \in (b + 2)..(c - 1) : body[i] \in Whitespace
                       /\ \E d \in (c + 2)..Len(body) :
                            /\ At(body, d, GtQuote)
                            /\ \/ d + 1 = Len(body)
                               \/ /\ At(body, d + 2, LabelOpenEq)
                                  /\ Len(body) - 1 >= d + 2 + Len(LabelOpenEq)
                                  /\ At(body, Len(body) - 1, QuoteBracket)

\* the edge the claim names for such a line: the texts between its quotes
C1_Edge(l) ==
    LET pieces == Split(l, Quote)
    IN  <<pieces[2], pieces[4], IF Len(pieces) >= 7 THEN pieces[6] ELSE None>>

\* C1: after the parser has processed a line of the edge form, with or without
\* a label block, with or without ';', the last edge of the list is that
\* line's (src, dst, label), the label being null when there is no block.
C1_EveryEdgeLineIsParsed ==
    (pc = "parse" /\ line # Idle /\ C1_EdgeForm(line)) =>
        /\ edges # <<>>
        /\ edges[Len(edges)] = C1_Edge(line)

(***************************************************************************)
(* C5                                                                      *)
(***************************************************************************)
StartsWith(l, prefix) == At(l, 1, prefix)

ClusterNames == {ClsOf(n) : n \in nodes}
ClusterMembers(cls) == {n \in nodes : ClsOf(n) = cls}
FullyCovered(cls) ==
    \A n \in ClusterMembers(cls) : n \in DOMAIN node_coverage /\ node_coverage[n] > 0

\* among the lines ls, the label line of the cluster carries the covered styling
Styled(ls, cls) ==
    \E l \in ls : StartsWith(l, LabelLine(cls, FALSE)) /\ Contains(l, GreenLabel)

\* among the lines ls, the label line of the cluster is there without styling
Unstyled(ls, cls) == LabelLine(cls, FALSE) \in ls

C5_StyledIffCovered(text) ==
    LET ls == Range(SplitLines(text))
    IN  \A cls \in ClusterNames :
            /\ FullyCovered(cls) <=> Styled(ls, cls)
            /\ ~FullyCovered(cls) <=> Unstyled(ls, cls)

\* C5: in a document either exporter returns, a cluster's subgraph has the
\* covered styling if and only if every node of the cluster has a
\* node-coverage score > 0 (a score of 0, a negative or a missing one makes
\* the cluster not fully covered).
C5_ClusterStyledIffAllCovered ==
    /\ (pc = "exported" /\ doc.exc = "none") => C5_StyledIffCovered(doc.val)
    /\ (pc = "converted" /\ clean.exc = "none") => C5_StyledIffCovered(clean.val)

\* export_to_dot returned a document with a fully covered cluster of two
\* nodes and a cluster that is not fully covered
C5_Witness ==
    /\ pc = "exported" /\ doc.exc = "none"
    /\ \E cls \in ClusterNames :
         /\ Cardinality(ClusterMembers(cls)) = 2
         /\ FullyCovered(cls) /\ Styled(Range(SplitLines(doc.val)), cls)
    /\ \E cls \in ClusterNames :
         ~FullyCovered(cls) /\ Unstyled(Range(SplitLines(doc.val)), cls)

(***************************************************************************)
(* C6                                                                      *)
(***************************************************************************)
EmptyGraph == [nodes |-> {}, edges |-> <<>>]

PairCount(es, src, dst) == Cardinality({i \in 1..Len(es) : es[i][1] = src /\ es[i][2] = dst})

SamePairs(es, fs) ==
    \A p \in {<<es[i][1], es[i][2]>> : i \in 1..Len(es)}
             \cup {<<fs[i][1], fs[i][2]>> : i \in 1..Len(fs)} :
        PairCount(es, p[1], p[2]) = PairCount(fs, p[1], p[2])

RoundTrip(text) ==
    LET again == ParseLines(EmptyGraph, SplitLines(text))
    IN  /\ again.exc = "none"
        /\ again.val.nodes = nodes
        /\ SamePairs(again.val.edges, edges)

\* C6: parsing the document an exporter returned yields the node set and the
\* multiset of (src, dst) pairs of the graph that was exported.
C6_RoundTrip ==
    /\ (pc = "exported" /\ doc.exc = "none") => RoundTrip(doc.val)
    /\ (pc = "converted" /\ clean.exc = "none") => RoundTrip(clean.val)

(***************************************************************************)
(* C7                                                                      *)
(***************************************************************************)
\* C7: whatever the order in which the node set is iterated, the document
\* returned is the one returned when it is iterated in sorted order: the
\* export of a model does not depend on the iteration order.
C7_ExportIgnoresIterationOrder ==
    /\ pc = "exported" =>
         doc = export_to_dot(edges, node_coverage, edge_coverage, graph_ranking,
                             SortStrings(nodes))
    /\ pc = "converted" =>
         clean = convert_export(edges, node_coverage, edge_coverage, graph_ranking,
                                SortStrings(nodes))

\* a document was returned after two nodes of one cluster were iterated
\* against their sorted order
C7_Witness ==
    /\ pc = "exported" /\ doc.exc = "none"
    /\ \E i, j \in 1..Len(order) :
         /\ i < j
         /\ ClsOf(order[i]) = ClsOf(order[j])
         /\ ~StrLeq(order[i], order[j])

(***************************************************************************)
(* C8                                                                      *)
(***************************************************************************)
\* C8: neither exporter raises on a graph the parser produced.
C8_ExportNeverRaises ==
    /\ pc = "exported" => doc.exc = "none"
    /\ pc = "converted" => clean.exc = "none"

(***************************************************************************)
(* C9                                                                      *)
(***************************************************************************)
LabelAttr == <<"l","a","b","e","l","=","\"">>

\* the line of the i-th edge: the edge lines end the document, before "}"
LabelIffNotNone(text) ==
    LET ls == SplitLines(text)
        EdgeLineOf(i) == ls[Len(ls) - 1 - Len(edges) + i]
    IN  \A i \in 1..Len(edges) :
            IF edges[i][3] # None
            THEN Contains(EdgeLineOf(i), LabelAttr \o edges[i][3] \o Quote)
            ELSE ~Contains(EdgeLineOf(i), LabelAttr)

\* C9: the line of an edge carries label="<text>" if and only if the edge's
\* label is not null, an empty label text included.
C9_LabelIffNotNone ==
    /\ (pc = "exported" /\ doc.exc = "none") => LabelIffNotNone(doc.val)
    /\ (pc = "converted" /\ clean.exc = "none") => LabelIffNotNone(clean.val)

(***************************************************************************)
(* C10                                                                     *)
(***************************************************************************)
Endpoints(es) == UNION {{es[i][1], es[i][2]} : i \in 1..Len(es)}

\* what one iteration of the loop may do to the graph
C10_Step ==
    (pc = "parse" /\ rest # <<>>) =>
        /\ pc' # "raised"
        /\ IF PatternMatches(Strip(Head(rest)))
           THEN /\ Len(edges') = Len(edges) + 1
                /\ SubSeq(edges', 1, Len(edges)) = edges
                /\ nodes' = nodes \cup {edges'[Len(edges')][1], edges'[Len(edges')][2]}
           ELSE nodes' = nodes /\ edges' = edges

\* C10: after every processed line the node set is exactly the set of the
\* endpoints of the edges collected so far; a matching line appends one edge
\* and adds its two endpoints, a non-matching line changes nothing, and no
\* line raises.
C10_NodesAreTheEndpoints ==
    /\ [](pc # "raised" /\ nodes = Endpoints(edges))
    /\ [][C10_Step]_vars

\* a matching line and then a non-matching line have been processed
C10_Witness ==
    /\ pc = "parse" /\ line # Idle /\ ~PatternMatches(line)
    /\ Len(edges) = 1 /\ Cardinality(nodes) = 2

====
